---- MODULE Spec2Model ----
(***************************************************************************)
(* Liberty parsers of Lib2Vec: the regex parser of scripts/tesst.py and    *)
(* scripts/test.py (comment stripping, brace matching, cell extraction)    *)
(* and the analysis code of scripts/test_utf8.py (lookup-table decoding,   *)
(* interpolation, sampling grid).                                          *)
(*                                                                         *)
(* Python indexes from 0 and this module from 1: a Python position p is    *)
(* position p + 1 here.  A text is a sequence of one-character strings,    *)
(* or of tokens where a whole regex match is one symbol.                   *)
(***************************************************************************)
EXTENDS Integers, Sequences, FiniteSets, TLC

VARIABLES
    pc,             \* where the modelled call stands
    raw,            \* _remove_comments_optimized: the content passed in
    kept,           \* positions of raw that survive, in order
    cleaned,        \* the content returned
    content,        \* _extract_cell_body / _extract_cells_complete: the text
    start_pos,      \* _extract_cell_body: start_pos
    pos,            \* _extract_cell_body: pos
    brace_count,    \* _extract_cell_body: brace_count
    cell_body,      \* _extract_cell_body: the value returned
    cells,          \* CompleteLib2VecLibertyParser.cells
    processed_cells, \* CompleteLib2VecLibertyParser.processed_cells
    library_info,   \* CompleteLib2VecLibertyParser.library_info
    timing,         \* _extract_timing_tables: the timing group passed in
    arc_info,       \* _extract_timing_arcs: the six table slots of arc_info
    table,          \* interpolate_timing_value: table
    slew,           \* interpolate_timing_value: slew
    load,           \* interpolate_timing_value: load
    value,          \* interpolate_timing_value: what the call did and returned
    asap_cells,     \* ASAP7Parser.cells: the cell_info of each cell
    conditions,     \* generate_input_conditions: what the call did and returned
    asap_cell_name, \* _determine_cell_type: cell_name
    func_expr,      \* _determine_cell_type: function
    cell_type,      \* _determine_cell_type: the key returned
    library,        \* ASAP7Parser.library: the cell groups of the library
    cell_types,     \* ASAP7Parser.cell_types
    passes,         \* extract_cell_information: the calls made so far
    stat_cell_name, \* _infer_cell_type: cell_name
    pin_count,      \* _infer_cell_type: len(cell_info['pins'])
    inferred,       \* _infer_cell_type: the label returned
    pin_text,       \* _parse_pin_complete: pin_body
    pin_entry,      \* _parse_pin_complete: the pin_info returned
    timeout_minutes, \* CompleteLib2VecLibertyParser.timeout_minutes
    alarm,          \* the seconds of the pending signal.alarm, 0 for none
    file,           \* parse_liberty_file: what stands at filename
    result          \* parse_liberty_file: the value returned

vars == <<pc, raw, kept, cleaned, content, start_pos, pos, brace_count,
          cell_body, cells, processed_cells, library_info, timing, arc_info, table, slew,
          load, value, asap_cells, conditions, asap_cell_name, func_expr,
          cell_type,
          library, cell_types, passes, stat_cell_name, pin_count, inferred,
          pin_text, pin_entry, timeout_minutes, alarm, file, result>>

stripVars == <<raw, kept, cleaned>>
scanVars == <<start_pos, pos, brace_count, cell_body>>
cellsVars == <<cells, processed_cells, library_info>>
tableVars == <<timing, arc_info>>
interpVars == <<table, slew, load, value>>
gridVars == <<asap_cells, conditions>>
typeVars ==
    <<asap_cell_name, func_expr, cell_type, library, cell_types, passes>>
asapVars == <<tableVars, interpVars, gridVars, typeVars>>
regexVars == <<stripVars, content, scanVars, cellsVars>>
statVars == <<stat_cell_name, pin_count, inferred>>
pinVars == <<pin_text, pin_entry>>
alarmVars == <<timeout_minutes, alarm, file, result>>
tessVars == <<statVars, pinVars, alarmVars>>

(***************************************************************************)
(* Bounds.                                                                 *)
(***************************************************************************)
MaxStripLen == 6
MaxBodyLen == 5
MaxCellsLen == 6

(***************************************************************************)
(* Helpers.                                                                *)
(***************************************************************************)
Min(S) == CHOOSE x \in S : \A y \in S : x <= y

Range(f) == {f[k] : k \in DOMAIN f}

SeqsUpTo(S, n) == UNION {[1..k -> S] : k \in 0..n}

Span(a, b) == [k \in 1..(b - a + 1) |-> a + k - 1]

NL == "\n"
QUOTE == "\""

(***************************************************************************)
(* Python's None, and a returned text.                                     *)
(***************************************************************************)
None == [ok |-> FALSE, text |-> <<>>]
Some(t) == [ok |-> TRUE, text |-> t]

(***************************************************************************)
(* _remove_comments_optimized.  Every intermediate text is carried as the  *)
(* sequence of the positions of the input whose characters it holds.       *)
(***************************************************************************)
StripChars == {"/", "*", QUOTE, NL, "a"}

\* The end of the line that starts at i: the position of its "\n", or
\* Len(s) + 1 on the last line.
LineEnd(s, i) ==
    LET nls == {j \in i..Len(s) : s[j] = NL}
    IN  IF nls = {} THEN Len(s) + 1 ELSE Min(nls)

\* content.split('\n'): the lines of s from position i on, each as
\* <<first, last>> (last = first - 1 for an empty line).
RECURSIVE Split(_, _)
Split(s, i) ==
    LET e == LineEnd(s, i)
    IN  IF e > Len(s)
        THEN << <<i, e - 1>> >>
        ELSE << <<i, e - 1>> >> \o Split(s, e + 1)

\* line.find('//'): the offset in the line of its first "//", or -1.
Find(s, ln) ==
    LET hits == {p \in ln[1]..(ln[2] - 1) : s[p] = "/" /\ s[p + 1] = "/"}
    IN  IF hits = {} THEN -1 ELSE Min(hits) - ln[1]

\* A slip: only the "//" itself is taken out of the line.
CleanLineDropsMarker(s, ln) ==
    LET comment_pos == Find(s, ln)
    IN  IF comment_pos >= 0
        THEN Span(ln[1], ln[1] + comment_pos - 1)
                 \o Span(ln[1] + comment_pos + 2, ln[2])
        ELSE Span(ln[1], ln[2])

\* One turn of the loop over the lines: line[:comment_pos] when '//' is found.
CleanLine(s, ln) ==
    LET comment_pos == Find(s, ln)
    IN  IF comment_pos >= 0
        THEN Span(ln[1], ln[1] + comment_pos - 1)
        ELSE Span(ln[1], ln[2])

\* '\n'.join(cleaned_lines), from line k on: the "\n" between two lines is
\* the one that ended the first of them.
RECURSIVE Join(_, _, _)
Join(s, lines, k) ==
    IF k = Len(lines)
    THEN CleanLine(s, lines[k])
    ELSE CleanLine(s, lines[k]) \o <<lines[k][2] + 1>> \o Join(s, lines, k + 1)

RemoveLineComments(s) == Join(s, Split(s, 1), 1)

\* re.sub(r'/\*.*?\*/', '', content, flags=re.DOTALL) on the text whose
\* characters are s[P[1]], s[P[2]], ...: scanning from k, a "/*" followed
\* by a "*/" is dropped up to the first such "*/"; a "/*" that no "*/"
\* follows matches nothing and stays.
BlockClosers(s, P, k) ==
    {j \in (k + 2)..(Len(P) - 1) : s[P[j]] = "*" /\ s[P[j + 1]] = "/"}

BlockOpensAt(s, P, k) ==
    /\ k + 1 <= Len(P)
    /\ s[P[k]] = "/"
    /\ s[P[k + 1]] = "*"
    /\ BlockClosers(s, P, k) # {}

RECURSIVE SubBlockComments(_, _, _)
SubBlockComments(s, P, k) ==
    IF k > Len(P) THEN <<>>
    ELSE IF BlockOpensAt(s, P, k)
         THEN SubBlockComments(s, P, Min(BlockClosers(s, P, k)) + 2)
         ELSE <<P[k]>> \o SubBlockComments(s, P, k + 1)

\* The positions of s that _remove_comments_optimized keeps.
RemoveCommentsKept(s) == SubBlockComments(s, RemoveLineComments(s), 1)

TextAt(s, P) == [k \in 1..Len(P) |-> s[P[k]]]

remove_comments_optimized(s) == TextAt(s, RemoveCommentsKept(s))

(***************************************************************************)
(* _extract_cell_body.                                                     *)
(***************************************************************************)
BodyChars == {"{", "}", QUOTE, "a"}

\* A whole `cell ( name ) {` match as one symbol; it holds one `{`.
CellHeaders == {"cell(A){", "cell(B){", "cell(AND2X1){"}

\* A whole `pin ( name ) {` match as one symbol; it holds one `{`.
PinHeaders == {"pin(A){", "pin(B){", "pin(Y){"}

\* Lines 222-225: what one character does to brace_count.
BraceStep(char, count) ==
    IF char = "{" \/ char \in CellHeaders \cup PinHeaders THEN count + 1
    ELSE IF char = "}" THEN count - 1
    ELSE count

\* The while loop, from (p, count) to its exit: <<pos, brace_count>> there.
RECURSIVE ScanBraces(_, _, _)
ScanBraces(c, p, count) ==
    IF p <= Len(c) /\ count > 0
    THEN ScanBraces(c, p + 1, BraceStep(c[p], count))
    ELSE <<p, count>>

\* A slip: a body is returned only when the scan stopped before the end of
\* the text.
BodyResultBeforeEnd(c, start, p, count) ==
    IF count = 0 /\ p <= Len(c) THEN Some(SubSeq(c, start, p - 2)) ELSE None

\* A slip: the slice runs through the closing brace.
BodyResultWithBrace(c, start, p, count) ==
    IF count = 0 THEN Some(SubSeq(c, start, p - 1)) ELSE None

\* Lines 228-231: content[start_pos:pos-1], or None.
BodyResult(c, start, p, count) ==
    IF count = 0 THEN Some(SubSeq(c, start, p - 2)) ELSE None

extract_cell_body(c, start) ==
    LET r == ScanBraces(c, start, 1)
    IN  BodyResult(c, start, r[1], r[2])

(***************************************************************************)
(* _extract_cells_complete and what it calls.  The text is a sequence of   *)
(* tokens: a whole match of a group pattern, a brace, or a whole           *)
(* `key : value ;` statement.  A float is kept in tenths (1.5 is 15).      *)
(***************************************************************************)
\* The statements of the texts: the key, the text of the value with its
\* blanks and its quotes taken off, and whether the value is quoted.
Stmt(k, v, q) == [key |-> k, value |-> v, quoted |-> q]

Statement ==
    [t \in {"area:1;", "area:2;", "area:1.5;", "area:abc;", "area:\"1.5\";",
            "direction:input;", "direction:output;", "function:\"A&B\";",
            "capacitance:1.0;", "capacitance:abc;", "max_capacitance:2.0;",
            "nom_voltage:0.7;", "nom_voltage:\"0.7\";",
            "delay_model:table_lookup;"} |->
        CASE t = "area:1;" -> Stmt("area", "1", FALSE)
          [] t = "area:2;" -> Stmt("area", "2", FALSE)
          [] t = "area:1.5;" -> Stmt("area", "1.5", FALSE)
          [] t = "area:abc;" -> Stmt("area", "abc", FALSE)
          [] t = "area:\"1.5\";" -> Stmt("area", "1.5", TRUE)
          [] t = "direction:input;" -> Stmt("direction", "input", FALSE)
          [] t = "direction:output;" -> Stmt("direction", "output", FALSE)
          [] t = "function:\"A&B\";" -> Stmt("function", "A&B", TRUE)
          [] t = "capacitance:1.0;" -> Stmt("capacitance", "1.0", FALSE)
          [] t = "capacitance:abc;" -> Stmt("capacitance", "abc", FALSE)
          [] t = "max_capacitance:2.0;" -> Stmt("max_capacitance", "2.0", FALSE)
          [] t = "nom_voltage:0.7;" -> Stmt("nom_voltage", "0.7", FALSE)
          [] t = "nom_voltage:\"0.7\";" -> Stmt("nom_voltage", "0.7", TRUE)
          [] t = "delay_model:table_lookup;" -> Stmt("delay_model", "table_lookup", FALSE)]

\* The patterns are not anchored: fr'{attr}\s*:\s*([^;]+);' matches every
\* statement whose key ends with attr.
KeyEndsWith(key, attr) ==
    \/ key = attr
    \/ attr = "capacitance" /\ key \in {"max_capacitance", "min_capacitance"}

\* re.search(fr'{attr}\s*:\s*([^;]+);', text): the position of the first
\* statement the pattern matches, or 0.
SearchStatement(text, attr) ==
    LET hits == {k \in 1..Len(text) :
                    /\ text[k] \in DOMAIN Statement
                    /\ KeyEndsWith(Statement[text[k]].key, attr)}
    IN  IF hits = {} THEN 0 ELSE Min(hits)

\* float(): the texts it accepts, with their values in tenths.
FloatOf ==
    [v \in {"1", "2", "1.5", "1.0", "2.0", "0.7"} |->
        CASE v = "1" -> 10 [] v = "2" -> 20 [] v = "1.5" -> 15
          [] v = "1.0" -> 10 [] v = "2.0" -> 20 [] v = "0.7" -> 7]

\* A slip: only the texts of integers are accepted.
FloatableIntegers(v, quoted) == ~quoted /\ v \in {"1", "2"}

\* Whether float() accepts a value: quotes still on it make it fail.
Floatable(v, quoted) == ~quoted /\ v \in DOMAIN FloatOf

\* A decoded value: None, a float or a string.
NoneVal == [type |-> "none", num |-> 0, str |-> ""]
FloatVal(n) == [type |-> "float", num |-> n, str |-> ""]
StrVal(v) == [type |-> "str", num |-> 0, str |-> v]

CellToks == {"cell(A){", "cell(B){", "{", "}", "area:1;", "area:2;"}

\* match.group(1).strip().strip('"') of a cell_pattern match.
HeaderName(tok) ==
    CASE tok = "cell(A){" -> "A"
      [] tok = "cell(B){" -> "B"
      [] tok = "cell(AND2X1){" -> "AND2X1"

\* cell_pattern.finditer(content): the matches in text order, each as
\* [end_pos, cell_name], end_pos the position just after the match's `{`.
RECURSIVE CellStartsFrom(_, _)
CellStartsFrom(c, k) ==
    IF k > Len(c) THEN <<>>
    ELSE IF c[k] \in CellHeaders
         THEN <<[end_pos |-> k + 1, cell_name |-> HeaderName(c[k])]>>
              \o CellStartsFrom(c, k + 1)
         ELSE CellStartsFrom(c, k + 1)

cell_starts(c) == CellStartsFrom(c, 1)

\* re.search(r'area\s*:\s*([^;]+);', cell_body) and float() of its group:
\* the first area statement anywhere in the body decides; 0.0 without one.
AreaOf(body) ==
    LET k == SearchStatement(body, "area")
    IN  IF k = 0 THEN FloatVal(0)
        ELSE IF Floatable(Statement[body[k]].value, Statement[body[k]].quoted)
             THEN FloatVal(FloatOf[Statement[body[k]].value])
             ELSE FloatVal(0)

\* Lines 256-262: the same for cell_leakage_power.
LeakageOf(body) ==
    LET k == SearchStatement(body, "cell_leakage_power")
    IN  IF k = 0 THEN FloatVal(0)
        ELSE IF Floatable(Statement[body[k]].value, Statement[body[k]].quoted)
             THEN FloatVal(FloatOf[Statement[body[k]].value])
             ELSE FloatVal(0)

\* A slip: an entry that exists is kept (setdefault).
StoreKeepsFirst(cs, cell_name, cell_info) ==
    [n \in DOMAIN cs \cup {cell_name} |->
        IF n \in DOMAIN cs THEN cs[n] ELSE cell_info]

\* self.cells[cell_name] = cell_info
Store(cs, cell_name, cell_info) ==
    [n \in DOMAIN cs \cup {cell_name} |->
        IF n = cell_name THEN cell_info ELSE cs[n]]

\* Lines 311-318: the attributes of a pin in the order of the loop, and
\* those of type float.
pin_attributes ==
    <<"direction", "function", "capacitance", "max_transition",
      "max_capacitance", "min_capacitance">>

float_attributes ==
    {"capacitance", "max_transition", "max_capacitance", "min_capacitance"}

\* Lines 298-308: pin_info before the loop.
NewPinInfo(pin_name) ==
    [a \in Range(pin_attributes) \cup {"name"} |->
        CASE a = "name" -> StrVal(pin_name)
          [] a = "capacitance" -> FloatVal(0)
          [] OTHER -> NoneVal]

\* Lines 321-334: one turn of the loop over the attributes; the value is
\* match.group(1).strip().strip('"').
PinAttribute(pin_info, pin_body, attr) ==
    LET k == SearchStatement(pin_body, attr)
    IN  IF k = 0 THEN pin_info
        ELSE LET text == Statement[pin_body[k]].value
             IN  [pin_info EXCEPT ![attr] =
                     IF attr \in float_attributes
                     THEN (IF Floatable(text, FALSE)
                           THEN FloatVal(FloatOf[text])
                           ELSE FloatVal(0))
                     ELSE StrVal(text)]

RECURSIVE PinAttributes(_, _, _)
PinAttributes(pin_info, pin_body, i) ==
    IF i > Len(pin_attributes) THEN pin_info
    ELSE PinAttributes(PinAttribute(pin_info, pin_body, pin_attributes[i]),
                       pin_body, i + 1)

\* _parse_pin_complete, without the counts of timing and power groups, of
\* which the texts hold none (pin_body is the text it was given, kept to
\* tell what the entry was parsed from).
parse_pin_complete(pin_name, pin_body) ==
    LET pin_info == PinAttributes(NewPinInfo(pin_name), pin_body, 1)
    IN  [a \in DOMAIN pin_info \cup {"pin_body"} |->
            IF a = "pin_body" THEN pin_body ELSE pin_info[a]]

\* match.group(1).strip().strip('"') of a pin_pattern match.
PinName(tok) ==
    CASE tok = "pin(A){" -> "A"
      [] tok = "pin(B){" -> "B"
      [] tok = "pin(Y){" -> "Y"

\* Lines 285-293: the loop over the matches of pin_pattern from position k
\* of the cell body on; a pin whose body is None or empty is passed over
\* (nothing stands between two tokens: a body of no token is the empty
\* string).
RECURSIVE ExtractPinsFrom(_, _, _)
ExtractPinsFrom(body, pins, k) ==
    IF k > Len(body) THEN pins
    ELSE IF body[k] \in PinHeaders
         THEN LET pin_body == extract_cell_body(body, k + 1)
              IN  ExtractPinsFrom(
                      body,
                      IF pin_body.ok /\ pin_body.text # <<>>
                      THEN Store(pins, PinName(body[k]),
                                 parse_pin_complete(PinName(body[k]), pin_body.text))
                      ELSE pins,
                      k + 1)
         ELSE ExtractPinsFrom(body, pins, k + 1)

extract_pins_complete(body) == ExtractPinsFrom(body, <<>>, 1)

\* Lines 273-275: re.search(r'function\s*:\s*"([^"]+)"', cell_body): the
\* first function statement with a quoted value that is not empty.
FunctionOf(body) ==
    LET hits == {k \in 1..Len(body) :
                    /\ body[k] \in DOMAIN Statement
                    /\ KeyEndsWith(Statement[body[k]].key, "function")
                    /\ Statement[body[k]].quoted
                    /\ Statement[body[k]].value # ""}
    IN  IF hits = {} THEN NoneVal ELSE StrVal(Statement[body[Min(hits)]].value)

\* _parse_single_cell_complete: the cell_info (cell_body is the text it was
\* given, kept to tell what the entry was parsed from); the texts hold no
\* cell_footprint statement.
parse_single_cell_complete(cell_name, body) ==
    [name |-> cell_name, area |-> AreaOf(body),
     leakage_power |-> LeakageOf(body), pins |-> extract_pins_complete(body),
     function |-> FunctionOf(body), cell_body |-> body]

\* One turn of the loop over cell_starts (lines 189-209).
ProcessCellStart(c, cs, st) ==
    LET body == extract_cell_body(c, st.end_pos)
    IN  IF body # None
        THEN Store(cs, st.cell_name,
                   parse_single_cell_complete(st.cell_name, body.text))
        ELSE cs

(***************************************************************************)
(* SpecStrip: one call of _remove_comments_optimized on any text.          *)
(***************************************************************************)
IdleStrip == raw = <<>> /\ kept = <<>> /\ cleaned = <<>>
IdleScan ==
    /\ start_pos = 0
    /\ pos = 0
    /\ brace_count = 0
    /\ cell_body = None
IdleCells == cells = <<>> /\ processed_cells = 0 /\ library_info = <<>>
IdleTables == timing = <<>> /\ arc_info = <<>>
IdleInterp == table = <<>> /\ slew = 0 /\ load = 0 /\ value = <<>>
IdleGrid == asap_cells = <<>> /\ conditions = <<>>
IdleTypes ==
    /\ asap_cell_name = <<>> /\ func_expr = <<>> /\ cell_type = <<>>
    /\ library = <<>> /\ cell_types = <<>> /\ passes = 0
IdleAsap == IdleTables /\ IdleInterp /\ IdleGrid /\ IdleTypes
IdleRegex == IdleStrip /\ content = <<>> /\ IdleScan /\ IdleCells
IdleStat == stat_cell_name = <<>> /\ pin_count = 0 /\ inferred = <<>>
IdlePin == pin_text = <<>> /\ pin_entry = <<>>
IdleAlarm == timeout_minutes = 0 /\ alarm = 0 /\ file = <<>> /\ result = <<>>
IdleTess == IdleStat /\ IdlePin /\ IdleAlarm

InitStrip ==
    /\ pc = "strip"
    /\ raw \in SeqsUpTo(StripChars, MaxStripLen)
    /\ kept = <<>>
    /\ cleaned = <<>>
    /\ content = <<>>
    /\ IdleScan
    /\ IdleCells
    /\ IdleAsap
    /\ IdleTess

RemoveComments ==
    /\ pc = "strip"
    /\ kept' = RemoveCommentsKept(raw)
    /\ cleaned' = remove_comments_optimized(raw)
    /\ pc' = "stripped"
    /\ UNCHANGED <<raw, content, scanVars, cellsVars, asapVars, tessVars>>

NextStrip == RemoveComments

SpecStrip == InitStrip /\ [][NextStrip]_vars

(***************************************************************************)
(* SpecBody: one call of _extract_cell_body, one loop turn per step.       *)
(***************************************************************************)
InitBody ==
    /\ pc = "scan"
    /\ content \in SeqsUpTo(BodyChars, MaxBodyLen)
    /\ start_pos \in 1..(Len(content) + 1)
    /\ pos = start_pos
    /\ brace_count = 1
    /\ cell_body = None
    /\ IdleStrip
    /\ IdleCells
    /\ IdleAsap
    /\ IdleTess

\* A slip: a brace advances the position in its branch and again at the
\* end of the turn.
ScanStepAdvancesTwice ==
    /\ pc = "scan"
    /\ pos <= Len(content) /\ brace_count > 0
    /\ brace_count' = BraceStep(content[pos], brace_count)
    /\ pos' = IF content[pos] \in {"{", "}"} THEN pos + 2 ELSE pos + 1
    /\ UNCHANGED <<pc, content, start_pos, cell_body, stripVars, cellsVars,
                   asapVars, tessVars>>

\* Lines 220-226: one turn of the while loop.
ScanStep ==
    /\ pc = "scan"
    /\ pos <= Len(content) /\ brace_count > 0
    /\ brace_count' = BraceStep(content[pos], brace_count)
    /\ pos' = pos + 1
    /\ UNCHANGED <<pc, content, start_pos, cell_body, stripVars, cellsVars,
                   asapVars, tessVars>>

ScanReturn ==
    /\ pc = "scan"
    /\ ~(pos <= Len(content) /\ brace_count > 0)
    /\ cell_body' = BodyResult(content, start_pos, pos, brace_count)
    /\ pc' = "returned"
    /\ UNCHANGED <<content, start_pos, pos, brace_count, stripVars, cellsVars,
                   asapVars, tessVars>>

NextBody == ScanStep \/ ScanReturn

SpecBody == InitBody /\ [][NextBody]_vars

\* The call runs to its return: a loop turn or the return is always taken
\* when one is possible.
SpecBodyLive == InitBody /\ [][NextBody]_vars /\ WF_vars(NextBody)

(***************************************************************************)
(* SpecCells: one call of _extract_cells_complete on a fresh parser, one   *)
(* turn of the loop over cell_starts per step.                             *)
(***************************************************************************)
NoCells == [n \in {} |-> 0]

InitCells ==
    /\ pc = "extract"
    /\ content \in SeqsUpTo(CellToks, MaxCellsLen)
    /\ cells = NoCells
    /\ processed_cells = 0
    /\ library_info = <<>>
    /\ IdleStrip
    /\ IdleScan
    /\ IdleAsap
    /\ IdleTess

\* Line 184: no match, the call returns at once.
NoCellFound ==
    /\ pc = "extract"
    /\ Len(cell_starts(content)) = 0
    /\ pc' = "extracted"
    /\ UNCHANGED <<content, cellsVars, stripVars, scanVars, asapVars, tessVars>>

ProcessCell ==
    /\ pc = "extract"
    /\ processed_cells < Len(cell_starts(content))
    /\ processed_cells' = processed_cells + 1
    /\ cells' = ProcessCellStart(content, cells,
                                 cell_starts(content)[processed_cells + 1])
    /\ pc' = IF processed_cells' = Len(cell_starts(content))
             THEN "extracted" ELSE "extract"
    /\ UNCHANGED <<content, library_info, stripVars, scanVars, asapVars, tessVars>>

NextCells == NoCellFound \/ ProcessCell

SpecCells == InitCells /\ [][NextCells]_vars

(***************************************************************************)
(* The quote-aware reading of a text that sections 4.1 and 4.2 of the      *)
(* specification ask for: the mode in which each character is read.        *)
(***************************************************************************)
RECURSIVE LexModes(_, _, _)
LexModes(s, i, m) ==
    IF i > Len(s) THEN <<>>
    ELSE LET two(a, b) == i + 1 <= Len(s) /\ s[i] = a /\ s[i + 1] = b
         IN  CASE m = "code" /\ s[i] = QUOTE -> <<"code">> \o LexModes(s, i + 1, "string")
               [] m = "code" /\ two("/", "/") -> <<"line", "line">> \o LexModes(s, i + 2, "line")
               [] m = "code" /\ two("/", "*") -> <<"block", "block">> \o LexModes(s, i + 2, "block")
               [] m = "string" /\ s[i] = QUOTE -> <<"string">> \o LexModes(s, i + 1, "code")
               [] m = "line" /\ s[i] = NL -> <<"code">> \o LexModes(s, i + 1, "code")
               [] m = "block" /\ two("*", "/") -> <<"block", "block">> \o LexModes(s, i + 2, "code")
               [] OTHER -> <<m>> \o LexModes(s, i + 1, m)

\* The positions strictly inside a double-quoted string that is closed, and
\* its closing quote.
InsideString(s) ==
    LET modes == LexModes(s, 1, "code")
    IN  {i \in 1..Len(s) :
            /\ modes[i] = "string"
            /\ \E j \in i..Len(s) : modes[j] = "string" /\ s[j] = QUOTE}

\* C1: comment stripping never removes text that lies inside a closed
\* double-quoted string: every such character of the input, a `//` or `/*`
\* among them, is still present in the output.
C1_QuotedTextSurvives ==
    pc = "stripped" => \A i \in InsideString(raw) : i \in Range(kept)

\* The quote-aware brace matcher of section 4.2, started at p with the
\* given depth: the position of the first `}` outside a quoted string that
\* brings the depth of the braces outside quoted strings to zero, or 0.
RECURSIVE QuoteAwareClose(_, _, _, _)
QuoteAwareClose(c, p, depth, inString) ==
    IF p > Len(c) THEN 0
    ELSE IF c[p] = QUOTE THEN QuoteAwareClose(c, p + 1, depth, ~inString)
    ELSE IF inString THEN QuoteAwareClose(c, p + 1, depth, inString)
    ELSE IF c[p] = "{" THEN QuoteAwareClose(c, p + 1, depth + 1, inString)
    ELSE IF c[p] = "}"
         THEN IF depth = 1 THEN p
              ELSE QuoteAwareClose(c, p + 1, depth - 1, inString)
    ELSE QuoteAwareClose(c, p + 1, depth, inString)

\* C2: the brace matcher ignores `{` and `}` inside double-quoted strings:
\* the body it returns ends just before the first unquoted `}` that brings
\* the depth of the unquoted braces, 1 at start_pos, to zero.
C2_BodyEndsAtUnquotedClose ==
    pc = "returned" =>
        LET q == QuoteAwareClose(content, start_pos, 1, FALSE)
        IN  q # 0 => cell_body = Some(SubSeq(content, start_pos, q - 1))

\* The positions of the cell group headers of a text.
HeaderPositions(c) == {k \in 1..Len(c) : c[k] \in CellHeaders}

Count(c, a, b, tok) == Cardinality({k \in a..b : c[k] = tok})

\* A text with exactly two cell groups, the headers at a and b, where the
\* body of the first holds one `{` that nothing closes, then its own `}`;
\* the second is well formed, of body c[b+1..e-1], and only the `}` of
\* enclosing groups follow it.
ExtraBraceScenario(c, a, b, e) ==
    /\ HeaderPositions(c) = {a, b}
    /\ a < b /\ b < e /\ e <= Len(c)
    /\ HeaderName(c[a]) # HeaderName(c[b])
    /\ c[b - 1] = "}"
    /\ Count(c, a + 1, b - 2, "{") = 1
    /\ Count(c, a + 1, b - 2, "}") = 0
    /\ c[e] = "}"
    /\ Count(c, b + 1, e - 1, "{") = 0
    /\ Count(c, b + 1, e - 1, "}") = 0
    /\ \A k \in (e + 1)..Len(c) : c[k] = "}"

\* C3: when a cell's body holds one extra unmatched `{` and a second,
\* well-formed cell follows, the first cell is not stored in cells and the
\* second is stored, parsed from exactly its own body.
C3_OnlyTheUnbalancedCellFails ==
    pc = "extracted" =>
        \A a, b, e \in 1..Len(content) :
            ExtraBraceScenario(content, a, b, e) =>
                /\ HeaderName(content[a]) \notin DOMAIN cells
                /\ HeaderName(content[b]) \in DOMAIN cells
                /\ cells[HeaderName(content[b])].cell_body
                       = SubSeq(content, b + 1, e - 1)

\* The depth of the braces after the first k symbols of a text, and a text
\* whose braces, all counted, balance.
RECURSIVE Depth(_, _)
Depth(c, k) == IF k = 0 THEN 0 ELSE BraceStep(c[k], Depth(c, k - 1))

Balanced(c) ==
    /\ \A k \in 1..Len(c) : Depth(c, k) >= 0
    /\ Depth(c, Len(c)) = 0

HeaderNames(c) == {HeaderName(c[k]) : k \in HeaderPositions(c)}

\* C4 as claimed: for every brace-balanced text the number of entries of
\* cells equals the number of cell group headers of the text.
C4_CountEqualsHeaders ==
    (pc = "extracted" /\ Balanced(content)) =>
        Cardinality(DOMAIN cells) = Cardinality(HeaderPositions(content))

\* C4 as amended: for every brace-balanced text the number of entries of
\* cells equals the number of distinct cell names among its headers.
C4_CountEqualsDistinctNames ==
    (pc = "extracted" /\ Balanced(content)) =>
        Cardinality(DOMAIN cells) = Cardinality(HeaderNames(content))

\* A balanced text of three cell groups, two of them of one name.
C4_Witness ==
    /\ pc = "extracted"
    /\ Balanced(content)
    /\ Cardinality(HeaderPositions(content)) = 3
    /\ Cardinality(DOMAIN cells) = 2

\* The headers of the cell groups named n whose body _extract_cell_body
\* finds: the definitions of n that are parsed.
ParsedDefinitions(c, n) ==
    {k \in HeaderPositions(c) :
         HeaderName(c[k]) = n /\ extract_cell_body(c, k + 1) # None}

\* C24: when several cell groups of a text share a name, cells holds one
\* entry for the name after _extract_cells_complete, made from the last
\* definition in text order that was parsed (its body and the area decoded
\* from that body); a name none of whose definitions was parsed has no
\* entry.
C24_LastDefinitionWins ==
    pc = "extracted" =>
        \A n \in HeaderNames(content) :
            LET parsed == ParsedDefinitions(content, n)
                last == CHOOSE k \in parsed : \A j \in parsed : j <= k
                body == extract_cell_body(content, last + 1).text
            IN  IF parsed = {} THEN n \notin DOMAIN cells
                ELSE /\ n \in DOMAIN cells
                     /\ cells[n].name = n
                     /\ cells[n].cell_body = body
                     /\ cells[n].area = AreaOf(body)

\* Two parsed definitions of cell A, the first of area 1 and the last of
\* area 2: the entry has area 2.
C24_Witness ==
    /\ pc = "extracted"
    /\ Cardinality(ParsedDefinitions(content, "A")) = 2
    /\ \E k \in ParsedDefinitions(content, "A") :
           extract_cell_body(content, k + 1).text = <<"area:1;">>
    /\ cells["A"].cell_body = <<"area:2;">>
    /\ cells["A"].area = FloatVal(20)

(***************************************************************************)
(* ASAP7Parser._parse_lookup_table and _extract_timing_tables              *)
(* (scripts/test_utf8.py).  A table group of the liberty library is given  *)
(* by the attributes it has: index_1 and index_2 as the pieces of          *)
(* str.split(','), values as its lines (the pieces of split('\\')), each   *)
(* the tokens of line.replace(',', ' ').split().                           *)
(***************************************************************************)
\* float(x.strip()): "x" stands for any piece float() rejects, the empty
\* piece among them.
ToFloat == [e \in {"1"} |-> 1]

Entries == DOMAIN ToFloat \cup {"x"}

AllFloats(row) == \A k \in 1..Len(row) : row[k] \in DOMAIN ToFloat

Floats(row) == [k \in 1..Len(row) |-> ToFloat[row[k]]]

table_types ==
    <<"cell_rise", "cell_fall", "rise_transition", "fall_transition",
      "rise_power", "fall_power">>

\* Lines 323-327: table_info as created.
EmptyTableInfo == [is_none |-> FALSE, index_1 |-> <<>>, index_2 |-> <<>>, values |-> <<>>]

\* The None a slot of arc_info starts with (lines 264-269).
NoneTable == [is_none |-> TRUE, index_1 |-> <<>>, index_2 |-> <<>>, values |-> <<>>]

\* Lines 344-350: the lines that are not blank, in order.
RECURSIVE NonBlank(_)
NonBlank(lines) ==
    IF lines = <<>> THEN <<>>
    ELSE IF Head(lines) = <<>> THEN NonBlank(Tail(lines))
         ELSE <<Head(lines)>> \o NonBlank(Tail(lines))

\* Lines 340-351: the values matrix, assigned only when every token of
\* every line is a float.
WithValues(info, t) ==
    IF ~t.has_values THEN info
    ELSE LET lines == NonBlank(t.values)
         IN  IF \A k \in 1..Len(lines) : AllFloats(lines[k])
             THEN [info EXCEPT !.values = [k \in 1..Len(lines) |-> Floats(lines[k])]]
             ELSE info

\* Lines 335-338, then the values: a float() that raises ends the try block
\* with what was assigned so far.
WithIndex2(info, t) ==
    IF ~t.has_index_2 THEN WithValues(info, t)
    ELSE IF AllFloats(t.index_2)
         THEN WithValues([info EXCEPT !.index_2 = Floats(t.index_2)], t)
         ELSE info

\* _parse_lookup_table: lines 330-333, then the rest.
parse_lookup_table(t) ==
    IF ~t.has_index_1 THEN WithIndex2(EmptyTableInfo, t)
    ELSE IF AllFloats(t.index_1)
         THEN WithIndex2([EmptyTableInfo EXCEPT !.index_1 = Floats(t.index_1)], t)
         ELSE EmptyTableInfo

\* _extract_timing_tables merged into arc_info (line 283): a slot is
\* assigned when the timing group has the attribute.
extract_timing_tables(tm) ==
    [tt \in Range(table_types) |->
        IF tm[tt].present THEN parse_lookup_table(tm[tt].group) ELSE NoneTable]

(***************************************************************************)
(* SpecTables: one timing group, with at most one table attribute, decoded *)
(* into the slots of its arc_info.                                         *)
(***************************************************************************)
MaxIndexLen == 2
MaxRows == 2

IndexLists == UNION {[1..k -> Entries] : k \in 1..MaxIndexLen}

ValueLines == SeqsUpTo(SeqsUpTo(Entries, MaxIndexLen), MaxRows)

\* A present index attribute has at least one piece (split never returns
\* an empty list); an absent attribute carries nothing.
TableGroups ==
    {g \in [has_index_1 : BOOLEAN, index_1 : IndexLists \cup {<<>>},
            has_index_2 : BOOLEAN, index_2 : IndexLists \cup {<<>>},
            has_values : BOOLEAN, values : ValueLines] :
        /\ g.has_index_1 = (g.index_1 # <<>>)
        /\ g.has_index_2 = (g.index_2 # <<>>)
        /\ ~g.has_values => g.values = <<>>}

NoGroup ==
    [has_index_1 |-> FALSE, index_1 |-> <<>>, has_index_2 |-> FALSE,
     index_2 |-> <<>>, has_values |-> FALSE, values |-> <<>>]

Absent == [present |-> FALSE, group |-> NoGroup]

InitTables ==
    /\ pc = "arc"
    /\ \E tt \in Range(table_types), g \in TableGroups :
           timing = [u \in Range(table_types) |->
                        IF u = tt THEN [present |-> TRUE, group |-> g] ELSE Absent]
    /\ arc_info = [u \in Range(table_types) |-> NoneTable]
    /\ IdleRegex
    /\ IdleInterp
    /\ IdleGrid
    /\ IdleTypes
    /\ IdleTess

ExtractTimingTables ==
    /\ pc = "arc"
    /\ arc_info' = extract_timing_tables(timing)
    /\ pc' = "tables"
    /\ UNCHANGED <<timing, regexVars, interpVars, gridVars, typeVars, tessVars>>

NextTables == ExtractTimingTables

SpecTables == InitTables /\ [][NextTables]_vars

Rectangular(t) ==
    /\ Len(t.values) = Len(t.index_1)
    /\ \A k \in 1..Len(t.values) : Len(t.values[k]) = Len(t.index_2)

\* C5: every lookup table exposed on a timing arc is rectangular: values
\* has as many rows as index_1 has entries, and every row as many entries
\* as index_2.
C5_ExposedTablesRectangular ==
    pc = "tables" =>
        \A tt \in Range(table_types) :
            ~arc_info[tt].is_none => Rectangular(arc_info[tt])

\* What section 4.4 of the specification calls a decode failure, read off
\* the group: an entry that is no float, a row count that differs from the
\* length of index_1, a row whose length differs from that of index_2.
DecodeFails(g) ==
    \/ g.has_index_1 /\ ~AllFloats(g.index_1)
    \/ g.has_index_2 /\ ~AllFloats(g.index_2)
    \/ g.has_values /\ \E k \in 1..Len(g.values) : ~AllFloats(g.values[k])
    \/ Len(NonBlank(g.values)) # Len(g.index_1)
    \/ \E k \in 1..Len(NonBlank(g.values)) :
           Len(NonBlank(g.values)[k]) # Len(g.index_2)

\* C6: when decoding a lookup table fails, the owning timing arc exposes
\* that table slot as None, never as a partial or truncated table.
C6_FailedTableIsNone ==
    pc = "tables" =>
        \A tt \in Range(table_types) :
            (timing[tt].present /\ DecodeFails(timing[tt].group))
                => arc_info[tt].is_none

(***************************************************************************)
(* ASAP7Parser.interpolate_timing_value.  Axis points, queries and table   *)
(* values are integers and a returned float is the exact fraction          *)
(* num / den of the value the formulas of lines 511-532 denote.            *)
(***************************************************************************)
Frac(n, d) == [raised |-> "none", num |-> n, den |-> d]

Raise(e) == [raised |-> e, num |-> 0, den |-> 1]

\* Lines 498-500 (and 504-506): the lower bounding index, found from i1 on.
RECURSIVE Lower(_, _, _)
Lower(index, x, i1) ==
    IF i1 < Len(index) /\ index[i1 + 1] < x
    THEN Lower(index, x, i1 + 1)
    ELSE i1

\* A slip: min(i1, len(index) - 1).
UpperSame(index, i1) == IF i1 <= Len(index) THEN i1 ELSE Len(index)

\* Lines 501 and 507: min(i1 + 1, len(index) - 1).
Upper(index, i1) == IF i1 + 1 <= Len(index) THEN i1 + 1 ELSE Len(index)

\* Whether values[i][j] exists (IndexError otherwise).
HasCell(values, i, j) == i <= Len(values) /\ j <= Len(values[i])

\* A slip: the two weights exchanged.
LerpSwapped(v1, v2, a, d) == Frac(v1 * a + v2 * (d - a), d)

\* v1 * (1 - t) + v2 * t with t = a / d (lines 513-514, 516-517).
Lerp(v1, v2, a, d) == Frac(v1 * (d - a) + v2 * a, d)

\* Lines 523-532 with t1 = a / dx and t2 = b / dy.
Bilinear(v11, v12, v21, v22, a, dx, b, dy) ==
    Frac(v11 * (dx - a) * (dy - b) + v21 * a * (dy - b)
            + v12 * (dx - a) * b + v22 * a * b,
         dx * dy)

\* The try block, lines 497-532: the value returned or the exception raised.
InterpolateBody(t, x, y) ==
    LET index_1 == t.index_1
        index_2 == t.index_2
        values == t.values
        i1 == Lower(index_1, x, 1)
        i2 == Upper(index_1, i1)
        j1 == Lower(index_2, y, 1)
        j2 == Upper(index_2, j1)
    IN  IF i1 = i2 /\ j1 = j2
        THEN IF HasCell(values, i1, j1)
             THEN Frac(values[i1][j1], 1)
             ELSE Raise("IndexError")
        ELSE IF i1 = i2
        THEN IF index_2[j2] - index_2[j1] = 0 THEN Raise("ZeroDivisionError")
             ELSE IF ~(HasCell(values, i1, j1) /\ HasCell(values, i1, j2))
                  THEN Raise("IndexError")
             ELSE Lerp(values[i1][j1], values[i1][j2],
                       y - index_2[j1], index_2[j2] - index_2[j1])
        ELSE IF j1 = j2
        THEN IF index_1[i2] - index_1[i1] = 0 THEN Raise("ZeroDivisionError")
             ELSE IF ~(HasCell(values, i1, j1) /\ HasCell(values, i2, j1))
                  THEN Raise("IndexError")
             ELSE Lerp(values[i1][j1], values[i2][j1],
                       x - index_1[i1], index_1[i2] - index_1[i1])
        ELSE LET dx == index_1[i2] - index_1[i1]
                 dy == index_2[j2] - index_2[j1]
             IN  IF ~(HasCell(values, i1, j1) /\ HasCell(values, i1, j2)
                        /\ HasCell(values, i2, j1) /\ HasCell(values, i2, j2))
                 THEN Raise("IndexError")
                 ELSE IF dx = 0 \/ dy = 0 THEN Raise("ZeroDivisionError")
                 ELSE Bilinear(values[i1][j1], values[i1][j2],
                               values[i2][j1], values[i2][j2],
                               x - index_1[i1], dx, y - index_2[j1], dy)

\* What a call did: the float returned as num / den, the exception its
\* handler caught, and the exception that left the call.
Returned(n, d, c) == [num |-> n, den |-> d, caught |-> c, escaped |-> "none"]

Escaped(e) == [num |-> 0, den |-> 1, caught |-> "none", escaped |-> e]

\* A slip: a handler for the division only.
OnlyZeroDivisionCaught(r) ==
    IF r.raised = "none" THEN Returned(r.num, r.den, "none")
    ELSE IF r.raised = "ZeroDivisionError" THEN Returned(0, 1, r.raised)
    ELSE Escaped(r.raised)

\* Lines 496 and 534-536: except Exception, return 0.0.
ExceptException(r) ==
    IF r.raised = "none"
    THEN Returned(r.num, r.den, "none")
    ELSE Returned(0, 1, r.raised)

\* interpolate_timing_value: the guards of lines 485-493, then the try.
interpolate_timing_value(t, x, y) ==
    IF t.is_none \/ t.values = <<>> THEN Returned(0, 1, "none")
    ELSE IF t.index_1 = <<>> \/ t.index_2 = <<>> THEN Returned(0, 1, "none")
    ELSE ExceptException(InterpolateBody(t, x, y))

(***************************************************************************)
(* SpecInterp: one call of interpolate_timing_value on a table and a query *)
(* point.  The tables are the rectangular ones over strictly increasing    *)
(* axes, and what becomes of one when a row, an entry or an attribute is   *)
(* missing or an axis does not increase.                                   *)
(***************************************************************************)
MaxAxisLen == 2

AxisValues == {2 * k - 1 : k \in 1..MaxAxisLen}

Queries == 0..(2 * MaxAxisLen)

CellValues == {0, 1}

StrictlyIncreasing(a) == \A k \in 1..(Len(a) - 1) : a[k] < a[k + 1]

Axes == {a \in SeqsUpTo(AxisValues, MaxAxisLen) : a # <<>> /\ StrictlyIncreasing(a)}

RectTables ==
    UNION {[is_none : {FALSE}, index_1 : {a}, index_2 : {b},
            values : [1..Len(a) -> [1..Len(b) -> CellValues]]] :
           a \in Axes, b \in Axes}

Flat(a) == [k \in DOMAIN a |-> a[1]]

Malformed(t) ==
    {[t EXCEPT !.values = <<>>],
     [t EXCEPT !.index_1 = <<>>],
     [t EXCEPT !.values = SubSeq(t.values, 1, Len(t.values) - 1)],
     [t EXCEPT !.values[Len(t.values)] = Tail(t.values[Len(t.values)])],
     [t EXCEPT !.index_1 = Flat(t.index_1)],
     [t EXCEPT !.index_2 = Flat(t.index_2)]}

\* The tables with one axis of MaxAxisLen + 1 points and one of a single
\* point.
LongAxis == [k \in 1..(MaxAxisLen + 1) |-> 2 * k - 1]

LongTables ==
    UNION {[is_none : {FALSE}, index_1 : {a}, index_2 : {b},
            values : [1..Len(a) -> [1..Len(b) -> CellValues]]] :
           <<a, b>> \in {<<LongAxis, <<1>>>>, <<<<1>>, LongAxis>>}}

InterpTables ==
    RectTables \cup UNION {Malformed(t) : t \in RectTables} \cup LongTables
        \cup {NoneTable}

InitInterp ==
    /\ pc = "query"
    /\ table \in InterpTables
    /\ slew \in Queries
    /\ load \in Queries
    /\ value = Returned(0, 1, "none")
    /\ IdleRegex
    /\ IdleTables
    /\ IdleGrid
    /\ IdleTypes
    /\ IdleTess

Interpolate ==
    /\ pc = "query"
    /\ value' = interpolate_timing_value(table, slew, load)
    /\ pc' = "interpolated"
    /\ UNCHANGED <<table, slew, load, regexVars, tableVars, gridVars, typeVars, tessVars>>

NextInterp == Interpolate

SpecInterp == InitInterp /\ [][NextInterp]_vars

\* A table of the shape sections 3 and 4.7 of the specification assume.
WellFormed(t) ==
    /\ ~t.is_none
    /\ t.index_1 # <<>> /\ t.index_2 # <<>>
    /\ StrictlyIncreasing(t.index_1) /\ StrictlyIncreasing(t.index_2)
    /\ Rectangular(t)

\* C7: for a rectangular table with strictly increasing axes, a query at a
\* grid point (index_1[i], index_2[j]) returns exactly values[i][j], at the
\* first and last index of an axis and for axes of length 1 too.
C7_GridPointIsExact ==
    (pc = "interpolated" /\ WellFormed(table)) =>
        \A i \in 1..Len(table.index_1), j \in 1..Len(table.index_2) :
            (slew = table.index_1[i] /\ load = table.index_2[j]) =>
                /\ value.caught = "none" /\ value.escaped = "none"
                /\ value.den # 0
                /\ value.num = table.values[i][j] * value.den

\* A query at the last point of a two-point slew axis, index_2 of two points.
C7_Witness ==
    /\ pc = "interpolated" /\ WellFormed(table)
    /\ Len(table.index_1) = 2 /\ Len(table.index_2) = 2
    /\ slew = table.index_1[2] /\ load = table.index_2[1]
    /\ table.values[2][1] = 1 /\ table.values[1][1] = 0
    /\ value.num = value.den

\* The query point brought to the nearest edge of the axis.
Clamp(index, x) ==
    IF x < index[1] THEN index[1]
    ELSE IF x > index[Len(index)] THEN index[Len(index)]
    ELSE x

SameValue(v, w) ==
    /\ v.escaped = w.escaped /\ v.caught = w.caught
    /\ v.num * w.den = w.num * v.den

\* C8: the interpolation never extrapolates: a query whose slew or load
\* lies below the first or above the last entry of its axis returns what
\* the query clamped to the nearest axis edge returns.
C8_OutsideQueriesClamp ==
    (pc = "interpolated" /\ WellFormed(table)) =>
        SameValue(value,
                  interpolate_timing_value(table, Clamp(table.index_1, slew),
                                           Clamp(table.index_2, load)))

\* The line through (x1, v1) and (x2, v2) holds (x, num / den).
OnLine(num, den, x, x1, v1, x2, v2) ==
    /\ den # 0
    /\ num * (x2 - x1) = den * (v1 * (x2 - x) + v2 * (x - x1))

InAxis(index, x) == index[1] <= x /\ x <= index[Len(index)]

Brackets(index, x, i1, i2) ==
    /\ index[i1] <= x /\ x <= index[i2]
    /\ i2 = i1 \/ i2 = i1 + 1

\* C25: for a strictly increasing axis and a query value within
\* [first, last] of the axis, the bounding indices interpolate_timing_value
\* chooses satisfy index[i1] <= x <= index[i2] with i2 = i1 or i2 = i1 + 1,
\* on the slew axis (index_1) and on the load axis (index_2).
C25_IndicesBracketQuery ==
    (pc = "interpolated" /\ WellFormed(table)) =>
        /\ InAxis(table.index_1, slew) =>
               LET i1 == Lower(table.index_1, slew, 1)
               IN  Brackets(table.index_1, slew, i1, Upper(table.index_1, i1))
        /\ InAxis(table.index_2, load) =>
               LET j1 == Lower(table.index_2, load, 1)
               IN  Brackets(table.index_2, load, j1, Upper(table.index_2, j1))

\* A slew strictly between the last two points of an axis of
\* MaxAxisLen + 1 points: the search moved i1 forward, and the value
\* returned lies half way between the values at i1 and i2.
C25_Witness ==
    /\ pc = "interpolated" /\ WellFormed(table)
    /\ table.index_1 = LongAxis
    /\ table.index_1[MaxAxisLen] < slew /\ slew < table.index_1[MaxAxisLen + 1]
    /\ Lower(table.index_1, slew, 1) = MaxAxisLen
    /\ table.values[MaxAxisLen][1] = 0 /\ table.values[MaxAxisLen + 1][1] = 1
    /\ value.caught = "none"
    /\ 2 * value.num = value.den

(***************************************************************************)
(* interpolate_timing_value on floats.  A float is kept as the integer     *)
(* number of units of 1 / One it holds, and every +, -, * and / gives the  *)
(* float nearest to the exact result, ties to the even significand, as     *)
(* Python's float arithmetic does; a significand has FloatBits bits.       *)
(***************************************************************************)
FloatBits == 3

RECURSIVE Pow2(_)
Pow2(k) == IF k = 0 THEN 1 ELSE 2 * Pow2(k - 1)

\* The float 1.0.
One == Pow2(2 * FloatBits)

RECURSIVE BitLen(_)
BitLen(n) == IF n = 0 THEN 0 ELSE 1 + BitLen(n \div 2)

\* The distance between the floats around n units.
Ulp(n) == IF BitLen(n) > FloatBits THEN Pow2(BitLen(n) - FloatBits) ELSE 1

\* The float nearest to n / d units, for n >= 0 and d > 0.
RoundPos(n, d) ==
    LET u == Ulp(n \div d)
        below == (n \div d) - ((n \div d) % u)
    IN  IF 2 * (n - below * d) < u * d THEN below
        ELSE IF 2 * (n - below * d) > u * d THEN below + u
        ELSE IF (below \div u) % 2 = 0 THEN below
        ELSE below + u

Round(n, d) == IF n >= 0 THEN RoundPos(n, d) ELSE 0 - RoundPos(0 - n, d)

FloatAdd(a, b) == Round(a + b, 1)

FloatSub(a, b) == Round(a - b, 1)

FloatMul(a, b) == Round(a * b, One)

\* a / b for b # 0.
FloatDiv(a, b) == IF b > 0 THEN Round(a * One, b) ELSE Round(0 - a * One, 0 - b)

\* v1 * (1 - t) + v2 * t (lines 514, 517, 527-528, 532).
LerpRounded(v1, v2, t) ==
    FloatAdd(FloatMul(v1, FloatSub(One, t)), FloatMul(v2, t))

\* The try block, lines 497-532, on floats.
InterpolateBodyRounded(t, x, y) ==
    LET index_1 == t.index_1
        index_2 == t.index_2
        values == t.values
        i1 == Lower(index_1, x, 1)
        i2 == Upper(index_1, i1)
        j1 == Lower(index_2, y, 1)
        j2 == Upper(index_2, j1)
    IN  IF i1 = i2 /\ j1 = j2
        THEN IF HasCell(values, i1, j1)
             THEN Frac(values[i1][j1], One)
             ELSE Raise("IndexError")
        ELSE IF i1 = i2
        THEN IF index_2[j2] - index_2[j1] = 0 THEN Raise("ZeroDivisionError")
             ELSE IF ~(HasCell(values, i1, j1) /\ HasCell(values, i1, j2))
                  THEN Raise("IndexError")
             ELSE Frac(LerpRounded(values[i1][j1], values[i1][j2],
                                   FloatDiv(FloatSub(y, index_2[j1]),
                                            FloatSub(index_2[j2], index_2[j1]))),
                       One)
        ELSE IF j1 = j2
        THEN IF index_1[i2] - index_1[i1] = 0 THEN Raise("ZeroDivisionError")
             ELSE IF ~(HasCell(values, i1, j1) /\ HasCell(values, i2, j1))
                  THEN Raise("IndexError")
             ELSE Frac(LerpRounded(values[i1][j1], values[i2][j1],
                                   FloatDiv(FloatSub(x, index_1[i1]),
                                            FloatSub(index_1[i2], index_1[i1]))),
                       One)
        ELSE IF ~(HasCell(values, i1, j1) /\ HasCell(values, i1, j2)
                    /\ HasCell(values, i2, j1) /\ HasCell(values, i2, j2))
             THEN Raise("IndexError")
             ELSE IF index_1[i2] - index_1[i1] = 0 \/ index_2[j2] - index_2[j1] = 0
             THEN Raise("ZeroDivisionError")
             ELSE LET t1 == FloatDiv(FloatSub(x, index_1[i1]),
                                     FloatSub(index_1[i2], index_1[i1]))
                      t2 == FloatDiv(FloatSub(y, index_2[j1]),
                                     FloatSub(index_2[j2], index_2[j1]))
                      v1 == LerpRounded(values[i1][j1], values[i2][j1], t1)
                      v2 == LerpRounded(values[i1][j2], values[i2][j2], t1)
                  IN  Frac(LerpRounded(v1, v2, t2), One)

interpolate_timing_value_rounded(t, x, y) ==
    IF t.is_none \/ t.values = <<>> THEN Returned(0, One, "none")
    ELSE IF t.index_1 = <<>> \/ t.index_2 = <<>> THEN Returned(0, One, "none")
    ELSE ExceptException(InterpolateBodyRounded(t, x, y))

(***************************************************************************)
(* SpecRound: one call of interpolate_timing_value on floats: a table with *)
(* one axis of two points and one of a single point, the points, the       *)
(* values and the query taken from the floats between 0.5 and 2.0.         *)
(***************************************************************************)
FloatPoints == {n \in (One \div 2)..(2 * One) : n % Ulp(n) = 0}

FloatPairs == {a \in FloatPoints \X FloatPoints : a[1] < a[2]}

RoundTables ==
    UNION {{[is_none |-> FALSE, index_1 |-> <<One>>, index_2 |-> a,
             values |-> <<v>>],
            [is_none |-> FALSE, index_1 |-> a, index_2 |-> <<One>>,
             values |-> <<<<v[1]>>, <<v[2]>>>>]} :
           a \in FloatPairs, v \in FloatPoints \X FloatPoints}

InitRound ==
    /\ pc = "float_query"
    /\ table \in RoundTables
    /\ slew \in IF Len(table.index_1) = 1 THEN {One} ELSE FloatPoints
    /\ load \in IF Len(table.index_2) = 1 THEN {One} ELSE FloatPoints
    /\ value = Returned(0, One, "none")
    /\ IdleRegex
    /\ IdleTables
    /\ IdleGrid
    /\ IdleTypes
    /\ IdleTess

InterpolateRounded ==
    /\ pc = "float_query"
    /\ value' = interpolate_timing_value_rounded(table, slew, load)
    /\ pc' = "float_interpolated"
    /\ UNCHANGED <<table, slew, load, regexVars, tableVars, gridVars, typeVars, tessVars>>

NextRound == InterpolateRounded

SpecRound == InitRound /\ [][NextRound]_vars

\* The four corner values of the cell of the table that the bounding
\* indices of a query select.
Corners(t, x, y) ==
    LET i1 == Lower(t.index_1, x, 1)
        i2 == Upper(t.index_1, i1)
        j1 == Lower(t.index_2, y, 1)
        j2 == Upper(t.index_2, j1)
    IN  {t.values[i1][j1], t.values[i1][j2], t.values[i2][j1], t.values[i2][j2]}

\* C29: for a rectangular table with strictly increasing axes and a query
\* (slew, load) inside the table's domain, the value returned lies between
\* the least and the greatest of the four bounding corner values.
C29_ValueWithinCorners ==
    (pc = "float_interpolated" /\ WellFormed(table)
        /\ InAxis(table.index_1, slew) /\ InAxis(table.index_2, load)) =>
        /\ value.caught = "none" /\ value.escaped = "none"
        /\ value.den > 0
        /\ \E lo, hi \in Corners(table, slew, load) :
               /\ \A v \in Corners(table, slew, load) : lo <= v /\ v <= hi
               /\ lo * value.den <= value.num * One
               /\ value.num * One <= hi * value.den

(***************************************************************************)
(* ASAP7Parser.generate_input_conditions.  A bound is an integer or        *)
(* float('inf'); the arrays numpy builds from the bounds are kept by what  *)
(* they hold: finite samples, or NaN.                                      *)
(***************************************************************************)
Inf == [inf |-> TRUE, v |-> 0]

Fin(n) == [inf |-> FALSE, v |-> n]

MinOf(a) == CHOOSE x \in Range(a) : \A y \in Range(a) : x <= y

MaxOf(a) == CHOOSE x \in Range(a) : \A y \in Range(a) : x >= y

\* min(min_slew, min(table['index_1'])) and max(max_slew, max(...)).
MinWith(m, a) == IF m.inf \/ MinOf(a) < m.v THEN Fin(MinOf(a)) ELSE m

MaxWith(m, a) == IF MaxOf(a) > m THEN MaxOf(a) ELSE m

\* Line 444: the table types the scan reads.
scanned_types == <<"cell_rise", "cell_fall", "rise_transition", "fall_transition">>

\* Lines 439-440: the bounds before the scan.
StartBounds == [min_slew |-> Inf, max_slew |-> 0, min_load |-> Inf, max_load |-> 0]

\* Lines 445-452: one table slot of one arc.
ScanTable(b, t) ==
    IF t.is_none THEN b
    ELSE LET b1 == IF t.index_1 # <<>>
                   THEN [b EXCEPT !.min_slew = MinWith(b.min_slew, t.index_1),
                                  !.max_slew = MaxWith(b.max_slew, t.index_1)]
                   ELSE b
         IN  IF t.index_2 # <<>>
             THEN [b1 EXCEPT !.min_load = MinWith(b1.min_load, t.index_2),
                             !.max_load = MaxWith(b1.max_load, t.index_2)]
             ELSE b1

\* Line 444: the scanned table types of one arc, from the k-th on.
RECURSIVE ScanArc(_, _, _)
ScanArc(b, arc, k) ==
    IF k > Len(scanned_types) THEN b
    ELSE ScanArc(ScanTable(b, arc[scanned_types[k]]), arc, k + 1)

\* Line 443: the arcs of one cell.
RECURSIVE ScanArcs(_, _)
ScanArcs(b, arcs) ==
    IF arcs = <<>> THEN b
    ELSE ScanArcs(ScanArc(b, Head(arcs), 1), Tail(arcs))

\* Line 442: the cells.
RECURSIVE ScanCells(_, _)
ScanCells(b, cs) ==
    IF cs = <<>> THEN b
    ELSE ScanCells(ScanArcs(b, Head(cs).timing_arcs), Tail(cs))

\* Lines 455-462: np.exp(np.linspace(np.log(lo), np.log(hi), n)).  np.log
\* gives inf for inf and -inf for 0, both without raising, and a linspace
\* between infinities holds NaN; finite positive bounds give finite samples.
Samples(lo, hi) == IF lo.inf \/ hi = 0 THEN "nan" ELSE "finite"

\* generate_input_conditions: nothing in it raises; the list returned has
\* one pair per slew and load sample.
generate_input_conditions(cs, num_slew_points, num_load_points) ==
    LET b == ScanCells(StartBounds, cs)
    IN  [error |-> "none",
         bounds |-> b,
         slew_points |-> Samples(b.min_slew, b.max_slew),
         load_points |-> Samples(b.min_load, b.max_load),
         count |-> num_slew_points * num_load_points]

(***************************************************************************)
(* SpecGrid: one call of generate_input_conditions on the cells of a       *)
(* parser: at most MaxGridCells cells, each with at most one timing arc    *)
(* that holds at most one table.                                           *)
(***************************************************************************)
MaxGridCells == 2
MaxPoints == 2

GridIndexes == {<<>>, <<1>>, <<2, 3>>}

GridTables ==
    [is_none : {FALSE}, index_1 : GridIndexes, index_2 : GridIndexes, values : {<<>>}]

NoTables == [u \in Range(table_types) |-> NoneTable]

GridArcs ==
    {NoTables} \cup
    {[NoTables EXCEPT ![tt] = t] : tt \in Range(table_types), t \in GridTables}

GridCells ==
    [timing_arcs : {<<>>} \cup {<<a>> : a \in GridArcs}]

NoConditions ==
    [error |-> "none", bounds |-> StartBounds, slew_points |-> "nan",
     load_points |-> "nan", count |-> 0]

InitGrid ==
    /\ pc = "cells"
    /\ asap_cells \in SeqsUpTo(GridCells, MaxGridCells)
    /\ conditions = NoConditions
    /\ IdleRegex
    /\ IdleTables
    /\ IdleInterp
    /\ IdleTypes
    /\ IdleTess

GenerateInputConditions ==
    /\ pc = "cells"
    /\ \E n1, n2 \in 1..MaxPoints :
           conditions' = generate_input_conditions(asap_cells, n1, n2)
    /\ pc' = "generated"
    /\ UNCHANGED <<asap_cells, regexVars, tableVars, interpVars, typeVars, tessVars>>

NextGrid == GenerateInputConditions

SpecGrid == InitGrid /\ [][NextGrid]_vars

\* C10: generate_input_conditions fails with an EmptyDomain error when no
\* lookup table with index data is reachable from the cells, and never
\* returns a grid built from undefined, infinite or NaN bounds.
C10_EmptyDomainIsAnError ==
    pc = "generated" =>
        /\ (\A c \in 1..Len(asap_cells) :
               \A a \in 1..Len(asap_cells[c].timing_arcs) :
                   \A tt \in Range(table_types) :
                       LET t == asap_cells[c].timing_arcs[a][tt]
                       IN  t.is_none \/ (t.index_1 = <<>> /\ t.index_2 = <<>>))
               => conditions.error = "EmptyDomain"
        /\ conditions.error = "none" =>
               /\ ~conditions.bounds.min_slew.inf
               /\ ~conditions.bounds.min_load.inf
               /\ conditions.slew_points = "finite"
               /\ conditions.load_points = "finite"

\* The values of one axis ("index_1" or "index_2") over every table of
\* every timing arc of every cell, for all six table types.
AxisPoints(cs, axis) ==
    UNION {UNION {UNION {IF arc[tt].is_none THEN {} ELSE Range(arc[tt][axis]) :
                             tt \in Range(table_types)} :
                      arc \in Range(cs[c].timing_arcs)} :
               c \in 1..Len(cs)}

\* C21: the slew bounds of generate_input_conditions are the least and the
\* greatest index_1 value, and the load bounds the least and the greatest
\* index_2 value, over every lookup table of every timing arc of every
\* cell, for all six table types (cell_rise, cell_fall, rise_transition,
\* fall_transition, rise_power, fall_power).
C21_BoundsCoverAllTables ==
    pc = "generated" =>
        /\ \A x \in AxisPoints(asap_cells, "index_1") :
               /\ ~conditions.bounds.min_slew.inf
               /\ conditions.bounds.min_slew.v <= x
               /\ x <= conditions.bounds.max_slew
        /\ \A y \in AxisPoints(asap_cells, "index_2") :
               /\ ~conditions.bounds.min_load.inf
               /\ conditions.bounds.min_load.v <= y
               /\ y <= conditions.bounds.max_load

(***************************************************************************)
(* ASAP7Parser._determine_cell_type.  A cell name and a key are sequences  *)
(* of characters.                                                          *)
(***************************************************************************)
INV == <<"I", "N", "V">>
BUF == <<"B", "U", "F">>
NAND == <<"N", "A", "N", "D">>
NOR == <<"N", "O", "R">>
AND == <<"A", "N", "D">>
OR == <<"O", "R">>
XOR == <<"X", "O", "R">>
XNOR == <<"X", "N", "O", "R">>

\* sub in s.
Contains(s, sub) ==
    \E i \in 0..(Len(s) - Len(sub)) : SubSeq(s, i + 1, i + Len(sub)) = sub

\* Line 374: cell_name.split('x')[0].
BaseName(cell_name) ==
    LET xs == {i \in 1..Len(cell_name) : cell_name[i] = "x"}
    IN  IF xs = {} THEN cell_name ELSE SubSeq(cell_name, 1, Min(xs) - 1)

\* The plain forms tested before the negated ones.
type_rules_plain_first ==
    <<[token |-> INV, digits |-> <<>>],
      [token |-> BUF, digits |-> <<>>],
      [token |-> AND, digits |-> <<"2", "3", "4">>],
      [token |-> NAND, digits |-> <<"2", "3", "4">>],
      [token |-> OR, digits |-> <<"2", "3", "4">>],
      [token |-> NOR, digits |-> <<"2", "3", "4">>],
      [token |-> XOR, digits |-> <<"2">>],
      [token |-> XNOR, digits |-> <<"2">>]>>

\* Lines 377-420: the branches of the if / elif chain in their order, each
\* with the substring it tests and the digits its inner chain tests.
type_rules ==
    <<[token |-> INV, digits |-> <<>>],
      [token |-> BUF, digits |-> <<>>],
      [token |-> NAND, digits |-> <<"2", "3", "4">>],
      [token |-> NOR, digits |-> <<"2", "3", "4">>],
      [token |-> AND, digits |-> <<"2", "3", "4">>],
      [token |-> OR, digits |-> <<"2", "3", "4">>],
      [token |-> XOR, digits |-> <<"2">>],
      [token |-> XNOR, digits |-> <<"2">>]>>

\* The inner chain of a branch (lines 382-389): the token with the first
\* of its digits that base_name holds, or the token alone.
RECURSIVE RuleKey(_, _, _)
RuleKey(rule, base_name, k) ==
    IF k > Len(rule.digits) THEN rule.token
    ELSE IF Contains(base_name, <<rule.digits[k]>>)
         THEN rule.token \o <<rule.digits[k]>>
         ELSE RuleKey(rule, base_name, k + 1)

\* The chain from its k-th branch on; the else of line 421 returns base_name.
RECURSIVE TypeFrom(_, _)
TypeFrom(base_name, k) ==
    IF k > Len(type_rules) THEN base_name
    ELSE IF Contains(base_name, type_rules[k].token)
         THEN RuleKey(type_rules[k], base_name, 1)
         ELSE TypeFrom(base_name, k + 1)

\* _determine_cell_type(cell_name, function); function is not read.
determine_cell_type(cell_name, function) == TypeFrom(BaseName(cell_name), 1)

(***************************************************************************)
(* SpecKey: one call of _determine_cell_type.  A name is a stem of at most *)
(* MaxStemLen pieces, an optional arity digit and an optional drive        *)
(* strength suffix.                                                        *)
(***************************************************************************)
MaxStemLen == 3

StemPieces == {<<"X">>, <<"N">>, AND, OR, INV, BUF}

RECURSIVE Flatten(_)
Flatten(ps) == IF ps = <<>> THEN <<>> ELSE Head(ps) \o Flatten(Tail(ps))

Stems == {Flatten(ps) : ps \in SeqsUpTo(StemPieces, MaxStemLen)}

ArityDigits == {"2", "3", "4"}

StrengthDigits == {"1", "2"}

DriveSuffixes == {<<sep, d>> : sep \in {"x", "X"}, d \in StrengthDigits}

CellNames ==
    {stem \o arity \o suffix :
        stem \in Stems,
        arity \in {<<>>} \cup {<<k>> : k \in ArityDigits},
        suffix \in {<<>>} \cup DriveSuffixes}

Functions == {<<"A", "&", "B">>, <<"!", "A">>}

InitKey ==
    /\ pc = "name"
    /\ asap_cell_name \in CellNames
    /\ func_expr \in Functions
    /\ cell_type = <<>>
    /\ library = <<>>
    /\ cell_types = <<>>
    /\ passes = 0
    /\ IdleRegex
    /\ IdleTables
    /\ IdleInterp
    /\ IdleGrid
    /\ IdleTess

DetermineCellType ==
    /\ pc = "name"
    /\ cell_type' = determine_cell_type(asap_cell_name, func_expr)
    /\ pc' = "typed"
    /\ UNCHANGED <<asap_cell_name, func_expr, library, cell_types, passes,
                   regexVars, tableVars, interpVars, gridVars, tessVars>>

NextKey == DetermineCellType

SpecKey == InitKey /\ [][NextKey]_vars

StartsWith(s, prefix) == Len(s) >= Len(prefix) /\ SubSeq(s, 1, Len(prefix)) = prefix

\* The tokens in the order in which the classifier tries them.
Priority == <<INV, BUF, NAND, NOR, AND, OR, XOR, XNOR>>

\* The first token of the order that the base name holds decides the key.
FirstMatchDecides ==
    \A k \in 1..Len(Priority) :
        (/\ Contains(BaseName(asap_cell_name), Priority[k])
         /\ \A j \in 1..(k - 1) : ~Contains(BaseName(asap_cell_name), Priority[j]))
            => StartsWith(cell_type, Priority[k])

\* C11 as stated: every base name that contains NAND yields a key starting
\* with NAND, every base name that contains NOR but not XNOR yields a key
\* starting with NOR, and the first matching rule decides the key.
C11_NegatedFormAlways ==
    pc = "typed" =>
        LET base == BaseName(asap_cell_name)
        IN  /\ Contains(base, NAND) => StartsWith(cell_type, NAND)
            /\ (Contains(base, NOR) /\ ~Contains(base, XNOR)) =>
                   StartsWith(cell_type, NOR)
            /\ FirstMatchDecides

\* C11 (amended): the negated form has priority over the plain one, after
\* the rules tried before it: a base name that contains NAND and neither
\* INV nor BUF yields a key starting with NAND, never AND; a base name that
\* contains NOR but not XNOR, and none of INV, BUF and NAND, yields a key
\* starting with NOR, never OR; the first matching rule decides the key.
C11_NegatedFormBeforePlain ==
    pc = "typed" =>
        LET base == BaseName(asap_cell_name)
            early == Contains(base, INV) \/ Contains(base, BUF)
        IN  /\ (Contains(base, NAND) /\ ~early) =>
                   StartsWith(cell_type, NAND) /\ ~StartsWith(cell_type, AND)
            /\ (/\ Contains(base, NOR) /\ ~Contains(base, XNOR)
                /\ ~early /\ ~Contains(base, NAND)) =>
                   StartsWith(cell_type, NOR) /\ ~StartsWith(cell_type, OR)
            /\ FirstMatchDecides

\* NAND3x1 is typed NAND3.
C11_Witness ==
    /\ pc = "typed"
    /\ asap_cell_name = NAND \o <<"3", "x", "1">>
    /\ cell_type = NAND \o <<"3">>

\* C12: a base name that contains XOR yields a key starting with XOR and a
\* base name that contains XNOR yields a key starting with XNOR, not an OR
\* or NOR key.
C12_XorAndXnorAreTokens ==
    pc = "typed" =>
        LET base == BaseName(asap_cell_name)
        IN  /\ Contains(base, XOR) => StartsWith(cell_type, XOR)
            /\ Contains(base, XNOR) => StartsWith(cell_type, XNOR)

\* C13: for a name made of NAND, NOR, AND or OR, an arity digit k in 2..4
\* and a drive strength suffix (x or X, then the strength), the key is the
\* token followed by k.
C13_StrengthNeverChangesKey ==
    pc = "typed" =>
        \A token \in {NAND, NOR, AND, OR}, k \in ArityDigits, suffix \in DriveSuffixes :
            asap_cell_name = token \o <<k>> \o suffix => cell_type = token \o <<k>>

(***************************************************************************)
(* ASAP7Parser.extract_cell_information.  The library is None or holds its *)
(* cell groups in text order; a cell group holds its name and its pins, a  *)
(* pin its direction and its function attribute if it has one.             *)
(***************************************************************************)
\* Lines 183 and 196-203: the function of the last output pin that has one.
RECURSIVE CellFunction(_, _)
CellFunction(pins, function) ==
    IF pins = <<>> THEN function
    ELSE CellFunction(Tail(pins),
                      IF Head(pins).direction = "output" /\ Head(pins).function.ok
                      THEN Head(pins).function.text
                      ELSE function)

\* _extract_single_cell_info, as far as extract_cell_information reads it.
extract_single_cell_info(cell) ==
    [name |-> cell.name, function |-> CellFunction(cell.pins, <<>>)]

\* Lines 159-161: self.cell_types[cell_type].append(cell_name).
AppendType(types, key, name) ==
    [k \in DOMAIN types \cup {key} |->
        IF k = key
        THEN (IF key \in DOMAIN types THEN Append(types[key], name) ELSE <<name>>)
        ELSE types[k]]

\* Lines 150-161: the loop over the cell groups; st holds cells_info and
\* self.cell_types.
RECURSIVE ClassifyCells(_, _)
ClassifyCells(groups, st) ==
    IF groups = <<>> THEN st
    ELSE LET cell == Head(groups)
             cell_info == extract_single_cell_info(cell)
             types == IF cell_info.function # <<>>
                      THEN AppendType(st.cell_types,
                                      determine_cell_type(cell.name, cell_info.function),
                                      cell.name)
                      ELSE st.cell_types
         IN  ClassifyCells(Tail(groups),
                           [cells_info |-> Store(st.cells_info, cell.name, cell_info),
                            cell_types |-> types])

(***************************************************************************)
(* SpecClassify: calls of extract_cell_information, at most MaxPasses of   *)
(* them, on a parser whose library holds at most MaxLibCells cell groups.  *)
(***************************************************************************)
MaxLibCells == 2
MaxPasses == 2

LibNames == {AND \o <<"2", "x", "1">>, AND \o <<"2", "x", "2">>,
             NAND \o <<"2", "x", "1">>, <<"T", "I", "E">>}

InputPin == [direction |-> "input", function |-> None]

OutputPins == [direction : {"output"}, function : {None} \cup {Some(f) : f \in Functions}]

PinLists == {<<>>, <<InputPin>>} \cup {<<InputPin, p>> : p \in OutputPins}

CellGroups == [name : LibNames, pins : PinLists]

NoLibrary == [parsed |-> FALSE, cells |-> <<>>]

Libraries ==
    {NoLibrary} \cup [parsed : {TRUE}, cells : SeqsUpTo(CellGroups, MaxLibCells)]

InitClassify ==
    /\ pc = "constructed"
    /\ library \in Libraries
    /\ asap_cells = <<>>
    /\ cell_types = <<>>
    /\ passes = 0
    /\ asap_cell_name = <<>> /\ func_expr = <<>> /\ cell_type = <<>>
    /\ conditions = <<>>
    /\ IdleRegex
    /\ IdleTables
    /\ IdleInterp
    /\ IdleTess

\* Lines 144-146: no library, nothing is touched.
ExtractNothing ==
    /\ passes < MaxPasses
    /\ ~library.parsed
    /\ passes' = passes + 1
    /\ pc' = "not_parsed"
    /\ UNCHANGED <<library, asap_cells, cell_types, asap_cell_name, func_expr,
                   cell_type, conditions, regexVars, tableVars, interpVars, tessVars>>

\* Lines 148-167.
ExtractCellInformation ==
    /\ passes < MaxPasses
    /\ library.parsed
    /\ LET st == ClassifyCells(library.cells,
                               [cells_info |-> <<>>, cell_types |-> cell_types])
       IN  /\ asap_cells' = st.cells_info
           /\ cell_types' = st.cell_types
    /\ passes' = passes + 1
    /\ pc' = "extracted"
    /\ UNCHANGED <<library, asap_cell_name, func_expr, cell_type, conditions,
                   regexVars, tableVars, interpVars, tessVars>>

NextClassify == ExtractNothing \/ ExtractCellInformation

SpecClassify == InitClassify /\ [][NextClassify]_vars

\* The names listed under the keys of a CellType mapping.
TypedNames(types) == UNION {Range(types[k]) : k \in DOMAIN types}

\* C14: after a classification pass every cell of the extracted cells
\* mapping is listed under some key of cell_types, cells with no function
\* expression and cells whose name holds no known token too.
C14_EveryCellHasAType ==
    pc = "extracted" => DOMAIN asap_cells \subseteq TypedNames(cell_types)

\* How many times a name is listed in a CellType mapping, over all keys.
Listings(types, name) ==
    Cardinality({<<k, i>> \in UNION {{k} \X DOMAIN types[k] : k \in DOMAIN types} :
                     types[k][i] = name})

\* C22: the CellType mapping is rebuilt on each classification pass: after
\* any number of successive calls of extract_cell_information on the same
\* parsed library, cell_types is what a single call on a new parser
\* produces, and every classified cell name is listed exactly once, under
\* exactly one key.
C22_TypesRebuiltPerPass ==
    pc = "extracted" =>
        /\ cell_types =
               ClassifyCells(library.cells,
                             [cells_info |-> <<>>, cell_types |-> <<>>]).cell_types
        /\ \A name \in TypedNames(cell_types) : Listings(cell_types, name) = 1

LineOf(s, i) == 1 + Cardinality({j \in 1..(i - 1) : s[j] = NL})

Newlines(s) == Cardinality({j \in 1..Len(s) : s[j] = NL})

\* C17: comment stripping preserves the newline structure: the output has
\* as many newline characters as the input and every surviving character
\* is on the line it was on, a block comment over several lines included.
C17_NewlinesPreserved ==
    pc = "stripped" =>
        /\ Newlines(cleaned) = Newlines(raw)
        /\ \A k \in 1..Len(kept) : LineOf(cleaned, k) = LineOf(raw, kept[k])

\* The mode in which the quote-aware reading of a text ends.
RECURSIVE EndMode(_, _, _)
EndMode(s, i, m) ==
    IF i > Len(s) THEN m
    ELSE LET two(a, b) == i + 1 <= Len(s) /\ s[i] = a /\ s[i + 1] = b
         IN  CASE m = "code" /\ s[i] = QUOTE -> EndMode(s, i + 1, "string")
               [] m = "code" /\ two("/", "/") -> EndMode(s, i + 2, "line")
               [] m = "code" /\ two("/", "*") -> EndMode(s, i + 2, "block")
               [] m = "string" /\ s[i] = QUOTE -> EndMode(s, i + 1, "code")
               [] m = "line" /\ s[i] = NL -> EndMode(s, i + 1, "code")
               [] m = "block" /\ two("*", "/") -> EndMode(s, i + 2, "code")
               [] OTHER -> EndMode(s, i + 1, m)

\* C18: a block comment that is open at the end of the input makes comment
\* stripping report an error: the stripper never returns a text for such an
\* input.
C18_UnterminatedCommentIsAnError ==
    pc = "stripped" => EndMode(raw, 1, "code") # "block"

\* The depth after content[start..p], 1 before start, every brace counted.
DepthAt(c, start, p) ==
    1 + Cardinality({k \in start..p : c[k] = "{"})
      - Cardinality({k \in start..p : c[k] = "}"})

\* The positions at which the depth is zero.
Closes(c, start) == {p \in start..Len(c) : DepthAt(c, start, p) = 0}

\* C19: _extract_cell_body returns None exactly when the end of the input
\* is reached before the depth, 1 at start, returns to zero; otherwise it
\* returns the content from start up to, and excluding, the first `}` at
\* which the depth reaches zero.
C19_BodyOrNone ==
    pc = "returned" =>
        IF Closes(content, start_pos) = {}
        THEN cell_body = None
        ELSE cell_body =
                 Some(SubSeq(content, start_pos, Min(Closes(content, start_pos)) - 1))

\* A body with a nested group, returned without the text after its `}`.
C19_Witness ==
    /\ pc = "returned"
    /\ cell_body = Some(<<"{", "}">>)
    /\ Len(content) > start_pos + 2
    /\ content[Len(content)] = "}"

\* C23: the brace-matching loop of _extract_cell_body terminates on every
\* input, balanced or not: every turn of the loop moves the scan position
\* forward by one, the position never passes the end of the input (so the
\* loop takes at most as many turns as there are characters from start_pos
\* on), and the call returns.
C23_ScanTerminates ==
    /\ [](start_pos <= pos /\ pos <= Len(content) + 1)
    /\ [][pc' = "scan" => pos' = pos + 1]_vars
    /\ <>(pc = "returned")

\* An unbalanced text of MaxBodyLen characters scanned from its first
\* character to its end: as many turns as characters, and None returned.
C23_Witness ==
    /\ pc = "returned"
    /\ Len(content) = MaxBodyLen /\ start_pos = 1
    /\ pos = Len(content) + 1
    /\ brace_count > 1
    /\ cell_body = None

(***************************************************************************)
(* _extract_library_info, and SpecParse: parse_liberty_file from the text  *)
(* it has read, on the texts of one library group with its parameters and  *)
(* at most one cell group with an area statement and at most MaxPins pin   *)
(* groups.  The texts hold no comment, voltage_map or operating_conditions.*)
(***************************************************************************)
LibraryHeaders == {"library(L)"}

\* lib_match.group(1).strip().strip('"').
LibraryName(tok) == "L"

\* Lines 127-129.
LibraryNameInfo(c, info) ==
    LET hits == {k \in 1..Len(c) : c[k] \in LibraryHeaders}
    IN  IF hits = {} THEN info
        ELSE Store(info, "name", StrVal(LibraryName(c[Min(hits)])))

\* Lines 132-136.
basic_params ==
    <<"delay_model", "nom_voltage", "nom_temperature", "nom_process",
      "default_max_transition", "default_fanout_load", "default_inout_pin_cap",
      "default_input_pin_cap", "default_output_pin_cap", "in_place_swap_mode">>

\* Lines 138-148: the loop over basic_params from the i-th on; the value is
\* unquoted, then a float if float() takes it and the string otherwise.
RECURSIVE BasicParams(_, _, _)
BasicParams(c, info, i) ==
    IF i > Len(basic_params) THEN info
    ELSE LET k == SearchStatement(c, basic_params[i])
         IN  IF k = 0 THEN BasicParams(c, info, i + 1)
             ELSE LET text == Statement[c[k]].value
                  IN  BasicParams(c,
                                  Store(info, basic_params[i],
                                        IF Floatable(text, FALSE)
                                        THEN FloatVal(FloatOf[text])
                                        ELSE StrVal(text)),
                                  i + 1)

extract_library_info(c, info) == BasicParams(c, LibraryNameInfo(c, info), 1)

\* Lines 189-209: the loop over cell_starts.
RECURSIVE ProcessCellStarts(_, _, _)
ProcessCellStarts(c, cs, starts) ==
    IF starts = <<>> THEN cs
    ELSE ProcessCellStarts(c, ProcessCellStart(c, cs, Head(starts)), Tail(starts))

MaxPins == 3

ParamLists == {<<>>, <<"delay_model:table_lookup;", "nom_voltage:\"0.7\";">>}

AreaLists == {<<>>, <<"area:1.5;">>, <<"area:abc;">>}

PinBodies ==
    {<<>>, <<"direction:input;">>, <<"direction:output;", "function:\"A&B\";">>,
     <<"direction:input;", "capacitance:abc;">>}

PinGroups == {<<h>> \o b \o <<"}">> : h \in PinHeaders, b \in PinBodies}

CellTexts ==
    {<<>>} \cup
    {<<"cell(AND2X1){">> \o a \o Flatten(ps) \o <<"}">> :
        a \in AreaLists, ps \in SeqsUpTo(PinGroups, MaxPins)}

LibraryTexts ==
    {<<"library(L)", "{">> \o ps \o ct \o <<"}">> :
        ps \in ParamLists, ct \in CellTexts}

InitParse ==
    /\ pc = "read"
    /\ content \in LibraryTexts
    /\ library_info = <<>>
    /\ cells = NoCells
    /\ processed_cells = 0
    /\ IdleStrip
    /\ IdleScan
    /\ IdleAsap
    /\ IdleTess

\* parse_liberty_file, line 67.
ExtractLibraryInfo ==
    /\ pc = "read"
    /\ library_info' = extract_library_info(content, library_info)
    /\ pc' = "library"
    /\ UNCHANGED <<content, cells, processed_cells, stripVars, scanVars, asapVars, tessVars>>

\* parse_liberty_file, line 72: the whole of _extract_cells_complete.
ExtractCellsComplete ==
    /\ pc = "library"
    /\ cells' = ProcessCellStarts(content, cells, cell_starts(content))
    /\ processed_cells' = Len(cell_starts(content))
    /\ pc' = "parsed"
    /\ UNCHANGED <<content, library_info, stripVars, scanVars, asapVars, tessVars>>

NextParse == ExtractLibraryInfo \/ ExtractCellsComplete

SpecParse == InitParse /\ [][NextParse]_vars

\* library (L) { cell (AND2X1) { area: 1.5; pin(A){direction:input;}
\* pin(B){direction:input;} pin(Y){direction:output; function:"A&B";} } }
ScenarioText ==
    <<"library(L)", "{", "cell(AND2X1){", "area:1.5;",
      "pin(A){", "direction:input;", "}",
      "pin(B){", "direction:input;", "}",
      "pin(Y){", "direction:output;", "function:\"A&B\";", "}",
      "}", "}">>

\* C15: parsing the scenario text yields the library name L and exactly one
\* cell, AND2X1, of area 1.5, with exactly the pins A, B and Y of
\* directions input, input and output, and the function A&B on pin Y.
C15_ScenarioParses ==
    (pc = "parsed" /\ content = ScenarioText) =>
        /\ "name" \in DOMAIN library_info
        /\ library_info["name"] = StrVal("L")
        /\ DOMAIN cells = {"AND2X1"}
        /\ cells["AND2X1"].area = FloatVal(15)
        /\ DOMAIN cells["AND2X1"].pins = {"A", "B", "Y"}
        /\ cells["AND2X1"].pins["A"]["direction"] = StrVal("input")
        /\ cells["AND2X1"].pins["B"]["direction"] = StrVal("input")
        /\ cells["AND2X1"].pins["Y"]["direction"] = StrVal("output")
        /\ cells["AND2X1"].pins["Y"]["function"] = StrVal("A&B")

\* The scenario text, parsed.
C15_Witness ==
    /\ pc = "parsed"
    /\ content = ScenarioText
    /\ Cardinality(DOMAIN cells) = 1
    /\ processed_cells = 1

\* What the value of a statement decodes to: a float when the unquoted text
\* parses as one, the unquoted text otherwise.
Decoded(tok) ==
    IF Floatable(Statement[tok].value, FALSE)
    THEN FloatVal(FloatOf[Statement[tok].value])
    ELSE StrVal(Statement[tok].value)

\* C20: every scalar attribute the parser decodes - library parameters,
\* cell area, pin capacitance and the pin limits - is unquoted and coerced
\* to a float, and a value that is no float is kept as its raw string.
C20_NonFloatKeptAsString ==
    pc = "parsed" =>
        /\ \A i \in 1..Len(basic_params) :
               SearchStatement(content, basic_params[i]) # 0 =>
                   library_info[basic_params[i]]
                       = Decoded(content[SearchStatement(content, basic_params[i])])
        /\ \A n \in DOMAIN cells :
               /\ SearchStatement(cells[n].cell_body, "area") # 0 =>
                      cells[n].area
                          = Decoded(cells[n].cell_body[
                                        SearchStatement(cells[n].cell_body, "area")])
               /\ \A p \in DOMAIN cells[n].pins, a \in float_attributes :
                      LET pin_body == cells[n].pins[p]["pin_body"]
                      IN  SearchStatement(pin_body, a) # 0 =>
                              cells[n].pins[p][a]
                                  = Decoded(pin_body[SearchStatement(pin_body, a)])

(***************************************************************************)
(* CompleteLib2VecLibertyParser._infer_cell_type, the classifier of the    *)
(* statistics.  A cell name and a pattern are sequences of characters.     *)
(***************************************************************************)
\* str.lower() on the characters of the names.
ToLower(ch) ==
    CASE ch = "A" -> "a" [] ch = "D" -> "d" [] ch = "I" -> "i"
      [] ch = "N" -> "n" [] ch = "O" -> "o" [] ch = "R" -> "r"
      [] ch = "V" -> "v" [] ch = "X" -> "x" [] OTHER -> ch

Lowered(cell_name) == [i \in DOMAIN cell_name |-> ToLower(cell_name[i])]

Pattern(p, l) == [pattern |-> p, label |-> l]

\* Lines 470-485: the patterns in the order of the dict.
patterns ==
    <<Pattern(<<"a", "n", "d">>, "AND"),
      Pattern(<<"n", "a", "n", "d">>, "NAND"),
      Pattern(<<"o", "r">>, "OR"),
      Pattern(<<"n", "o", "r">>, "NOR"),
      Pattern(<<"i", "n", "v">>, "INV"),
      Pattern(<<"n", "o", "t">>, "INV"),
      Pattern(<<"x", "o", "r">>, "XOR"),
      Pattern(<<"b", "u", "f">>, "BUF"),
      Pattern(<<"m", "u", "x">>, "MUX"),
      Pattern(<<"d", "f", "f">>, "DFF"),
      Pattern(<<"l", "a", "t", "c", "h">>, "LATCH"),
      Pattern(<<"a", "d", "d", "e", "r">>, "ADDER"),
      Pattern(<<"a", "o", "i">>, "AOI"),
      Pattern(<<"o", "a", "i">>, "OAI")>>

\* Lines 492-500: the label by the number of pins.
PinCountLabel(n) ==
    IF n <= 2 THEN "BASIC"
    ELSE IF n <= 4 THEN "SIMPLE"
    ELSE IF n <= 8 THEN "MEDIUM"
    ELSE "COMPLEX"

\* Lines 487-489: the loop over the patterns, from the k-th on.
RECURSIVE InferFrom(_, _, _)
InferFrom(name_lower, n, k) ==
    IF k > Len(patterns) THEN PinCountLabel(n)
    ELSE IF Contains(name_lower, patterns[k].pattern) THEN patterns[k].label
    ELSE InferFrom(name_lower, n, k + 1)

infer_cell_type(cell_name, n) == InferFrom(Lowered(cell_name), n, 1)

(***************************************************************************)
(* SpecInfer: one call of _infer_cell_type on a cell name of at most       *)
(* MaxStatPieces pieces and a cell of at most MaxStatPins pins.            *)
(***************************************************************************)
MaxStatPieces == 3
MaxStatPins == 9

StatPieces ==
    {<<"N">>, <<"x">>, <<"2">>, AND, OR, <<"i", "n", "v">>, <<"m", "u", "x">>}

StatNames == {Flatten(ps) : ps \in SeqsUpTo(StatPieces, MaxStatPieces)}

InitInfer ==
    /\ pc = "stat_name"
    /\ stat_cell_name \in StatNames
    /\ pin_count \in 0..MaxStatPins
    /\ inferred = <<>>
    /\ IdlePin
    /\ IdleAlarm
    /\ IdleRegex
    /\ IdleAsap

InferCellType ==
    /\ pc = "stat_name"
    /\ inferred' = infer_cell_type(stat_cell_name, pin_count)
    /\ pc' = "labelled"
    /\ UNCHANGED <<stat_cell_name, pin_count, pinVars, alarmVars, regexVars,
                   asapVars>>

NextInfer == InferCellType

SpecInfer == InitInfer /\ [][NextInfer]_vars

\* Whether the lower-cased name holds p, and none of the other patterns
\* of the set ps.
HoldsOnly(cell_name, p, ps) ==
    /\ Contains(Lowered(cell_name), p)
    /\ \A q \in ps \ {p} : ~Contains(Lowered(cell_name), q)

NegatedPatterns == {<<"n", "a", "n", "d">>, <<"n", "o", "r">>, <<"x", "o", "r">>}

\* C26: _infer_cell_type resolves a name that matches two patterns to the
\* longer, negated form: a cell whose lower-cased name holds `nand` is
\* labelled NAND, one that holds `nor` is labelled NOR and one that holds
\* `xor` is labelled XOR.
C26_NegatedFormLabelled ==
    pc = "labelled" =>
        /\ HoldsOnly(stat_cell_name, <<"n", "a", "n", "d">>, NegatedPatterns)
               => inferred = "NAND"
        /\ HoldsOnly(stat_cell_name, <<"n", "o", "r">>, NegatedPatterns)
               => inferred = "NOR"
        /\ HoldsOnly(stat_cell_name, <<"x", "o", "r">>, NegatedPatterns)
               => inferred = "XOR"

(***************************************************************************)
(* SpecPin: one call of _parse_pin_complete on a pin body of at most       *)
(* MaxPinStatements statements.                                            *)
(***************************************************************************)
MaxPinStatements == 3

PinStatements ==
    {"direction:input;", "function:\"A&B\";", "capacitance:1.0;",
     "capacitance:abc;", "max_capacitance:2.0;"}

InitPin ==
    /\ pc = "pin"
    /\ pin_text \in SeqsUpTo(PinStatements, MaxPinStatements)
    /\ pin_entry = <<>>
    /\ IdleStat
    /\ IdleAlarm
    /\ IdleRegex
    /\ IdleAsap

ParsePinComplete ==
    /\ pc = "pin"
    /\ \E pin_name \in {"A", "Y"} :
           pin_entry' = parse_pin_complete(pin_name, pin_text)
    /\ pc' = "pin_parsed"
    /\ UNCHANGED <<pin_text, statVars, alarmVars, regexVars, asapVars>>

NextPin == ParsePinComplete

SpecPin == InitPin /\ [][NextPin]_vars

\* The statements of a pin body whose key is exactly attr.
OwnStatements(text, attr) ==
    {k \in 1..Len(text) : Statement[text[k]].key = attr}

\* C27: the capacitance of the pin that _parse_pin_complete returns is the
\* value of the capacitance statement of the pin body, and the default 0.0
\* when the body has no capacitance statement: a max_capacitance or
\* min_capacitance statement never supplies it.
C27_CapacitanceFromOwnStatement ==
    pc = "pin_parsed" =>
        LET own == OwnStatements(pin_text, "capacitance")
        IN  /\ own = {} => pin_entry["capacitance"] = FloatVal(0)
            /\ \A v \in DOMAIN FloatOf :
                   (own # {} /\ \A k \in own : Statement[pin_text[k]].value = v)
                       => pin_entry["capacitance"] = FloatVal(FloatOf[v])

(***************************************************************************)
(* The pins of a parsed cell (SpecParse).                                  *)
(***************************************************************************)
\* The names of the pin groups a cell body declares.
DeclaredPins(body) == {PinName(body[k]) : k \in {j \in 1..Len(body) : body[j] \in PinHeaders}}

\* C30: every pin group of a cell body whose braces balance produces an
\* entry in the pins mapping of the cell under its name, a pin of empty
\* body (`pin(A){}`) too, so the number of pins of the cell is the number
\* of distinct pin names its body declares.
C30_EveryPinGroupHasAnEntry ==
    (pc = "parsed" /\ Balanced(content)) =>
        \A n \in DOMAIN cells :
            /\ DOMAIN cells[n].pins = DeclaredPins(cells[n].cell_body)
            /\ Cardinality(DOMAIN cells[n].pins)
                   = Cardinality(DeclaredPins(cells[n].cell_body))

(***************************************************************************)
(* SpecAlarm: a parser as __init__ leaves it, with the alarm of            *)
(* timeout_minutes armed, and one call of parse_liberty_file on it.  The   *)
(* signal of the alarm may arrive between any two steps, and after the     *)
(* call has returned; _timeout_handler then ends the process.  The result  *)
(* of _format_for_lib2vec is kept by its library_info and total_cells.     *)
(***************************************************************************)
MaxTimeoutMinutes == 2

AlarmTexts ==
    {<<"library(L)", "{">> \o ps \o ct \o <<"}">> :
        ps \in ParamLists,
        ct \in {<<>>} \cup {<<"cell(AND2X1){">> \o a \o <<"}">> : a \in AreaLists}}

\* What stands at filename: nothing, something open() fails on, or a text.
Files ==
    {[exists |-> FALSE, readable |-> FALSE, text |-> <<>>],
     [exists |-> TRUE, readable |-> FALSE, text |-> <<>>]}
        \cup [exists : {TRUE}, readable : {TRUE}, text : AlarmTexts]

NotReturned == [returned |-> FALSE, is_none |-> TRUE, library_info |-> <<>>, total_cells |-> 0]

ReturnedNone == [returned |-> TRUE, is_none |-> TRUE, library_info |-> <<>>, total_cells |-> 0]

\* Lines 18-28: the fields after __init__, and signal.alarm(timeout_minutes * 60).
InitAlarm ==
    /\ pc = "constructed"
    /\ timeout_minutes \in 0..MaxTimeoutMinutes
    /\ alarm = IF timeout_minutes > 0 THEN timeout_minutes * 60 ELSE 0
    /\ file \in Files
    /\ result = NotReturned
    /\ content = <<>>
    /\ library_info = <<>>
    /\ cells = NoCells
    /\ processed_cells = 0
    /\ IdleStrip
    /\ IdleScan
    /\ IdleStat
    /\ IdlePin
    /\ IdleAsap

\* Lines 39-41.
FileNotFound ==
    /\ pc = "constructed"
    /\ ~file.exists
    /\ result' = ReturnedNone
    /\ pc' = "returned"
    /\ UNCHANGED <<timeout_minutes, alarm, file, regexVars, asapVars, statVars,
                   pinVars>>

\* Lines 48-53: open() or read() raises.
ReadError ==
    /\ pc = "constructed"
    /\ file.exists /\ ~file.readable
    /\ result' = ReturnedNone
    /\ pc' = "returned"
    /\ UNCHANGED <<timeout_minutes, alarm, file, regexVars, asapVars, statVars,
                   pinVars>>

\* Lines 48-50 and 63: the text read; it holds no comment.
ReadFile ==
    /\ pc = "constructed"
    /\ file.exists /\ file.readable
    /\ content' = file.text
    /\ pc' = "read"
    /\ UNCHANGED <<stripVars, scanVars, cellsVars, asapVars, statVars, pinVars,
                   alarmVars>>

\* Lines 75-88: the result, signal.alarm(0), and the return.
FormatAndReturn ==
    /\ pc = "parsed"
    /\ result' = [returned |-> TRUE, is_none |-> FALSE,
                  library_info |-> library_info,
                  total_cells |-> Cardinality(DOMAIN cells)]
    /\ alarm' = IF timeout_minutes > 0 THEN 0 ELSE alarm
    /\ pc' = "returned"
    /\ UNCHANGED <<timeout_minutes, file, regexVars, asapVars, statVars, pinVars>>

\* Lines 30-34: SIGALRM arrives while an alarm is pending; sys.exit(1).
TimeoutHandler ==
    /\ alarm > 0
    /\ pc # "exited"
    /\ alarm' = 0
    /\ pc' = "exited"
    /\ UNCHANGED <<timeout_minutes, file, result, regexVars, asapVars, statVars,
                   pinVars>>

NextAlarm ==
    \/ FileNotFound
    \/ ReadError
    \/ ReadFile
    \/ ExtractLibraryInfo
    \/ ExtractCellsComplete
    \/ FormatAndReturn
    \/ TimeoutHandler

SpecAlarm == InitAlarm /\ [][NextAlarm]_vars

\* C28: whenever parse_liberty_file has returned, with a result or with
\* None for a missing or unreadable file, the alarm armed in the
\* constructor has been cancelled: no alarm is pending, so the timeout
\* handler cannot end the process after the call.
C28_AlarmCancelledOnReturn ==
    pc = "returned" => alarm = 0

====
